---- MODULE Spec2Model ----
(***************************************************************************)
(* Model of the tmpfiles.d translation of /var (tmpfiles/src/lib.rs).      *)
(*                                                                         *)
(* Text, paths and file names are sequences of bytes (integers 0..255), so *)
(* that escaping, parsing and the /var/run canonicalisation are computed   *)
(* the way the code computes them.  The filesystem is a finite tree of     *)
(* candidate paths below /var plus the files of usr/lib/tmpfiles.d.        *)
(***************************************************************************)
EXTENDS Integers, Sequences, FiniteSets, TLC

(***************************************************************************)
(* Bounds of the model.                                                    *)
(***************************************************************************)
\* how many times content may be created below /var
MaxAdds == 3
\* how many runs (conversions and read-only queries) may be started
MaxRuns == 3
\* the longest byte string given to the codec functions on their own
MaxLen == 4
\* the deepest path below /var given to translate_to_tmpfiles_d on its own
MaxDepth == 2

(***************************************************************************)
(* Byte classes: u8::is_ascii_alphanumeric and its siblings.              *)
(***************************************************************************)
IsAsciiAlphanumeric(c) == c \in (48..57) \cup (65..90) \cup (97..122)

IsAsciiPunctuation(c) == c \in (33..47) \cup (58..64) \cup (91..96) \cup (123..126)

IsAsciiWhitespace(c) == c \in {9, 10, 12, 13, 32}

RECURSIVE Concat(_)
\* the concatenation of a sequence of byte strings
Concat(ss) == IF ss = <<>> THEN <<>> ELSE Head(ss) \o Concat(Tail(ss))

\* one lowercase hexadecimal digit, as "{:02x}" prints it
HexDigit(n) == IF n < 10 THEN 48 + n ELSE 87 + n

\* the value of a digit in radix 16, or -1 (char::to_digit(16))
HexValue(c) ==
    IF c \in 48..57 THEN c - 48
    ELSE IF c \in 97..102 THEN c - 87
    ELSE IF c \in 65..70 THEN c - 55
    ELSE -1

\* u8::from_str_radix(s, 16) of a two-character string: -1 is Err.
\* An unsigned from_str_radix accepts one leading '+'.
FromStrRadix16(a, b) ==
    IF a = 43
    THEN HexValue(b)
    ELSE IF HexValue(a) < 0 \/ HexValue(b) < 0 THEN -1
         ELSE 16 * HexValue(a) + HexValue(b)

(***************************************************************************)
(* escape_path                                                             *)
(***************************************************************************)
EscapeByte(c) ==
    IF (IsAsciiAlphanumeric(c) \/ IsAsciiPunctuation(c)) /\ c # 92
    THEN <<c>>
    ELSE CASE c = 92 -> <<92, 92>>
           [] c = 10 -> <<92, 110>>
           [] c = 9  -> <<92, 116>>
           [] c = 13 -> <<92, 114>>
           [] OTHER  -> <<92, 120, HexDigit(c \div 16), HexDigit(c % 16)>>

\* [ok, out]: the text appended to `out`, or the fmt error of an empty path
escape_path(path) ==
    IF path = <<>>
    THEN [ok |-> FALSE, out |-> <<>>]
    ELSE IF \A i \in 1..Len(path) : IsAsciiAlphanumeric(path[i]) \/ path[i] = 47
         THEN [ok |-> TRUE, out |-> path]
         ELSE [ok |-> TRUE,
               out |-> Concat([i \in 1..Len(path) |-> EscapeByte(path[i])])]

(***************************************************************************)
(* unescape_path: `src` is the whole line, `i` the iterator's position     *)
(* (index of the next byte).  Results are [ok, buf, pos].                  *)
(***************************************************************************)
RECURSIVE impl_unescape_path_until(_, _, _, _)
impl_unescape_path_until(src, i, buf, end_of_record_is_quote) ==
    LET n == Len(src)
        should_take_next(c) ==
            IF end_of_record_is_quote THEN c # 34 ELSE ~IsAsciiWhitespace(c)
    IN  IF i > n \/ ~should_take_next(src[i])
        THEN [ok |-> TRUE, buf |-> buf, pos |-> i]
        ELSE IF src[i] # 92
        THEN impl_unescape_path_until(src, i + 1, Append(buf, src[i]),
                                      end_of_record_is_quote)
        ELSE IF i + 1 > n
        THEN [ok |-> FALSE, buf |-> buf, pos |-> i + 1]
        ELSE LET c == src[i + 1]
             IN  CASE c = 92  -> impl_unescape_path_until(src, i + 2,
                                     Append(buf, 92), end_of_record_is_quote)
                   [] c = 110 -> impl_unescape_path_until(src, i + 2,
                                     Append(buf, 10), end_of_record_is_quote)
                   [] c = 114 -> impl_unescape_path_until(src, i + 2,
                                     Append(buf, 13), end_of_record_is_quote)
                   [] c = 116 -> impl_unescape_path_until(src, i + 2,
                                     Append(buf, 9), end_of_record_is_quote)
                   [] c = 120 ->
                        IF i + 3 > n
                        THEN [ok |-> FALSE, buf |-> buf, pos |-> n + 1]
                        ELSE LET v == FromStrRadix16(src[i + 2], src[i + 3])
                             IN  IF v < 0
                                 THEN [ok |-> FALSE, buf |-> buf, pos |-> i + 4]
                                 ELSE impl_unescape_path_until(src, i + 4,
                                          Append(buf, v), end_of_record_is_quote)
                   [] OTHER   -> [ok |-> FALSE, buf |-> buf, pos |-> i + 2]

unescape_path(src, i) ==
    IF i <= Len(src) /\ src[i] = 34
    THEN impl_unescape_path_until(src, i + 1, <<>>, TRUE)
    ELSE impl_unescape_path_until(src, i, <<>>, FALSE)

RECURSIVE SkipWhile(_, _, _)
\* Peekable::next_if in a loop: the first position at or after i whose byte
\* is not of the class (whitespace when ws, non-whitespace otherwise)
SkipWhile(src, i, ws) ==
    IF i <= Len(src) /\ (IsAsciiWhitespace(src[i]) <=> ws)
    THEN SkipWhile(src, i + 1, ws)
    ELSE i

\* [ok, err, path]
tmpfiles_entry_get_path(line) ==
    LET afterLead == SkipWhile(line, 1, TRUE)
        afterType == SkipWhile(line, afterLead, FALSE)
        found_ftype == afterType > afterLead
        afterGap == SkipWhile(line, afterType, TRUE)
        r == unescape_path(line, afterGap)
    IN  IF ~found_ftype
        THEN [ok |-> FALSE, err |-> "MalformedTmpfilesEntry", path |-> <<>>]
        ELSE IF ~r.ok
        THEN [ok |-> FALSE, err |-> "MalformedTmpfilesPath", path |-> <<>>]
        ELSE [ok |-> TRUE, err |-> "none", path |-> r.buf]

(***************************************************************************)
(* std::path: a PathBuf is its bytes; equality, ordering and starts_with   *)
(* go by components.                                                       *)
(***************************************************************************)
RECURSIVE SplitComponents(_, _, _, _)
SplitComponents(b, i, cur, acc) ==
    LET flushed == IF cur = <<>> \/ (cur = <<46>> /\ (acc # <<>> \/ b[1] = 47))
                   THEN acc ELSE Append(acc, cur)
    IN  IF i > Len(b) THEN flushed
        ELSE IF b[i] = 47 THEN SplitComponents(b, i + 1, <<>>, flushed)
        ELSE SplitComponents(b, i + 1, Append(cur, b[i]), acc)

\* Path::components: the root flag and the normal components ("" and "."
\* segments are dropped, except a leading "." of a relative path)
PathComponents(b) ==
    [root  |-> b # <<>> /\ b[1] = 47,
     parts |-> SplitComponents(b, 1, <<>>, <<>>)]

\* Path::starts_with
PathStartsWith(b, base) ==
    LET p == PathComponents(b)
        q == PathComponents(base)
    IN  /\ p.root = q.root
        /\ Len(q.parts) <= Len(p.parts)
        /\ SubSeq(p.parts, 1, Len(q.parts)) = q.parts

\* PathBuf::push of a relative name onto a path without trailing separator
PathPush(b, name) == IF b # <<>> /\ b[Len(b)] = 47 THEN b \o name
                     ELSE b \o <<47>> \o name

LastSlash(b) ==
    IF \E i \in 1..Len(b) : b[i] = 47
    THEN CHOOSE i \in 1..Len(b) : b[i] = 47 /\ \A j \in (i + 1)..Len(b) : b[j] # 47
    ELSE 0

\* a pop that leaves the prefix as it is
Mut_PathPop(b) == [ok |-> TRUE, path |-> b]

\* PathBuf::pop on the walk's prefix: [ok, path]
PathPop(b) ==
    LET k == LastSlash(b)
    IN  IF k = 0 \/ Len(b) <= 1 THEN [ok |-> FALSE, path |-> b]
        ELSE [ok |-> TRUE, path |-> IF k = 1 THEN <<47>> ELSE SubSeq(b, 1, k - 1)]

\* DirEntry::file_name: the last component
FileName(b) == SubSeq(b, LastSlash(b) + 1, Len(b))

\* prefix.strip_prefix("/")
StripRoot(b) == SubSeq(b, 2, Len(b))

(***************************************************************************)
(* canonicalize_escape_path and translate_to_tmpfiles_d                    *)
(***************************************************************************)
VarRunPath == <<47, 118, 97, 114, 47, 114, 117, 110>>

\* an escape without the remapping of /var/run
Mut_canonicalize_escape_path(path) == escape_path(path)

canonicalize_escape_path(path) ==
    IF PathStartsWith(path, VarRunPath)
    THEN escape_path(SubSeq(path, 5, Len(path)))
    ELSE escape_path(path)

\* "{mode:04o}"
RECURSIVE Octal(_)
Octal(n) == IF n < 8 THEN <<48 + n>> ELSE Append(Octal(n \div 8), 48 + (n % 8))

Octal04(n) ==
    LET d == Octal(n)
    IN  [i \in 1..(IF Len(d) < 4 THEN 4 - Len(d) ELSE 0) |-> 48] \o d

\* meta is [dir, mode, target]: FileMeta::Directory(mode) or ::Symlink(target).
\* [ok, line]
translate_to_tmpfiles_d(abs_path, meta, username, groupname) ==
    LET p == canonicalize_escape_path(abs_path)
        t == canonicalize_escape_path(meta.target)
    IN  IF ~p.ok THEN [ok |-> FALSE, line |-> <<>>]
        ELSE IF meta.dir
        THEN [ok |-> TRUE,
              line |-> <<100, 32>> \o p.out \o <<32>> \o Octal04(meta.mode)
                       \o <<32>> \o username \o <<32>> \o groupname
                       \o <<32, 45, 32, 45>>]
        ELSE IF ~t.ok THEN [ok |-> FALSE, line |-> <<>>]
        ELSE [ok |-> TRUE,
              line |-> <<76, 32>> \o p.out \o <<32, 45, 32, 45, 32, 45, 32, 45, 32>>
                       \o t.out]

(***************************************************************************)
(* The filesystem below the root directory handle.                         *)
(* A node is [kind, uid, gid, mode, target]; kind "mnt" is a directory on  *)
(* which another filesystem is mounted.  var itself always exists.         *)
(***************************************************************************)
\* "var", the walk's root relative to rootfs
VarDir == <<118, 97, 114>>

\* "var/run"
VarRun == <<118, 97, 114, 47, 114, 117, 110>>

\* var/a, var/a/b, var/a/b/c d, var/e
PathA == <<118, 97, 114, 47, 97>>

PathB == <<118, 97, 114, 47, 97, 47, 98>>

PathC == <<118, 97, 114, 47, 97, 47, 98, 47, 99, 32, 100>>

PathE == <<118, 97, 114, 47, 101>>

\* "run": the directory /run, outside /var, that var/run points to
RunOutside == <<114, 117, 110>>

\* the candidate paths of the model
AllPaths == {VarRun, PathA, PathB, PathC, PathE}

Absent == [kind |-> "absent", uid |-> 0, gid |-> 0, mode |-> 0, target |-> <<>>]

Node(kind, uid, gid, mode, target) ==
    [kind |-> kind, uid |-> uid, gid |-> gid, mode |-> mode, target |-> target]

\* The objects the environment may create at each candidate path.  Uid 1 and
\* gid 1 have no name in the resolver (the regular file var/e has both).
\* Link targets: "../run", "../" and "/var/run/x".
Candidates(p) ==
    CASE p = VarRun -> {Node("link", 0, 0, 511, <<46, 46, 47, 114, 117, 110>>),
                        Node("dir", 0, 0, 493, <<>>)}
      [] p = PathA  -> {Node("dir", 0, 0, 493, <<>>), Node("dir", 1, 0, 493, <<>>),
                        Node("mnt", 0, 0, 493, <<>>)}
      [] p = PathB  -> {Node("dir", 0, 0, 511, <<>>), Node("mnt", 0, 0, 493, <<>>),
                        Node("link", 0, 1, 511, <<46, 46, 47>>),
                        Node("file", 0, 0, 420, <<>>)}
      [] p = PathC  -> {Node("file", 0, 0, 420, <<>>),
                        Node("link", 0, 0, 511,
                             <<47, 118, 97, 114, 47, 114, 117, 110, 47, 120>>)}
      [] p = PathE  -> {Node("file", 1, 1, 420, <<>>),
                        Node("link", 0, 0, 511, <<46, 46, 47>>)}

IsDirKind(n) == n.kind \in {"dir", "mnt"}

ParentOf(p) == SubSeq(p, 1, LastSlash(p) - 1)

\* Dir::read_dir: the paths of the entries of directory d
ReadDir(f, d) == {p \in AllPaths : ParentOf(p) = d /\ f[p].kind # "absent"}

\* the identity resolver (uzers::Users / uzers::Groups): uid 0 is "root",
\* gid 0 is "wheel", every other id has no name.  [found, name]
get_user_by_uid(uid) ==
    IF uid = 0 THEN [found |-> TRUE, name |-> <<114, 111, 111, 116>>]
    ELSE [found |-> FALSE, name |-> <<>>]

\* a resolver that answers "wheel" for every gid
Mut_get_group_by_gid(gid) == [found |-> TRUE, name |-> <<119, 104, 101, 101, 108>>]

get_group_by_gid(gid) ==
    IF gid = 0 THEN [found |-> TRUE, name |-> <<119, 104, 101, 101, 108>>]
    ELSE [found |-> FALSE, name |-> <<>>]

\* FileMeta::from_fs: [some, dir, mode, target]
FileMeta_from_fs(f, relpath) ==
    LET n == f[relpath]
    IN  IF IsDirKind(n)
        THEN [some |-> TRUE, dir |-> TRUE, mode |-> n.mode, target |-> <<>>]
        ELSE IF n.kind = "link"
        THEN [some |-> TRUE, dir |-> FALSE, mode |-> 0, target |-> n.target]
        ELSE [some |-> FALSE, dir |-> FALSE, mode |-> 0, target |-> <<>>]

\* a walk that does not notice mount points
Mut_open_dir_noxdev(f, relpath) == TRUE

\* Dir::open_dir_noxdev(relpath).is_some(): the directory is on the same
\* filesystem as its parent
open_dir_noxdev(f, relpath) == f[relpath].kind = "dir"

RECURSIVE NormalizeParts(_, _)
\* path resolution of a component sequence: ".." steps back
NormalizeParts(parts, acc) ==
    IF parts = <<>> THEN acc
    ELSE IF Head(parts) = <<46, 46>>
    THEN NormalizeParts(Tail(parts),
                        IF acc = <<>> THEN acc ELSE SubSeq(acc, 1, Len(acc) - 1))
    ELSE NormalizeParts(Tail(parts), Append(acc, Head(parts)))

RECURSIVE JoinParts(_)
JoinParts(parts) ==
    IF parts = <<>> THEN <<>>
    ELSE IF Len(parts) = 1 THEN Head(parts)
    ELSE Head(parts) \o <<47>> \o JoinParts(Tail(parts))

\* the path, relative to the root directory handle, that the symlink at
\* relpath with the given target text leads to
ResolveLink(relpath, target) ==
    LET base == IF target # <<>> /\ target[1] = 47 THEN <<>>
                ELSE PathComponents(ParentOf(relpath)).parts
    IN  JoinParts(NormalizeParts(base \o PathComponents(target).parts, <<>>))

\* a removal that follows a symlink and removes what it leads to
Mut_remove_file(f, relpath) ==
    LET t == IF f[relpath].kind = "link"
             THEN ResolveLink(relpath, f[relpath].target) ELSE relpath
    IN  IF t \in DOMAIN f THEN [f EXCEPT ![t] = Absent] ELSE f

\* Dir::remove_file
remove_file(f, relpath) == [f EXCEPT ![relpath] = Absent]

RECURSIVE RemoveChildren(_, _)
RECURSIVE RemoveEntry(_, _)
\* Removal of the entries `todo` of one directory, in any order, stopping at
\* the first failure: the set of possible [fs, ok]
RemoveChildren(f, todo) ==
    IF todo = {} THEN {[fs |-> f, ok |-> TRUE]}
    ELSE UNION {UNION {IF r.ok THEN RemoveChildren(r.fs, todo \ {c}) ELSE {r} :
                       r \in RemoveEntry(f, c)} : c \in todo}

\* Removal of one entry, depth first.  rmdir of a mount point fails
\* (EBUSY) after what is mounted there has been emptied.
RemoveEntry(f, c) ==
    IF IsDirKind(f[c])
    THEN {IF ~r.ok THEN r
          ELSE IF f[c].kind = "mnt" THEN [fs |-> r.fs, ok |-> FALSE]
          ELSE [fs |-> remove_file(r.fs, c), ok |-> TRUE] :
          r \in RemoveChildren(f, ReadDir(f, c))}
    ELSE {[fs |-> remove_file(f, c), ok |-> TRUE]}

\* Dir::remove_dir_all: the possible outcomes [fs, ok]
remove_dir_all(f, relpath) == RemoveEntry(f, relpath)

(***************************************************************************)
(* usr/lib/tmpfiles.d: `confdir` says whether the directory exists, `conf`  *)
(* maps the name of each file in it to [mode, lines].                      *)
(***************************************************************************)
\* const TMPFILESD: "usr/lib/tmpfiles.d"
TMPFILESD ==
    <<117, 115, 114, 47, 108, 105, 98, 47, 116, 109, 112, 102, 105, 108, 101, 115,
      46, 100>>

\* const BOOTC_GENERATED_PREFIX: "bootc-autogenerated-var"
BOOTC_GENERATED_PREFIX ==
    <<98, 111, 111, 116, 99, 45, 97, 117, 116, 111, 103, 101, 110, 101, 114, 97,
      116, 101, 100, 45, 118, 97, 114>>

RECURSIVE Decimal(_)
\* "{}" of a u32
Decimal(n) == IF n < 10 THEN <<48 + n>> ELSE Append(Decimal(n \div 10), 48 + (n % 10))

\* BootcTmpfilesGeneration::path
BootcTmpfilesGeneration_path(generation) ==
    TMPFILESD \o <<47>> \o BOOTC_GENERATED_PREFIX \o <<45>> \o Decimal(generation)
    \o <<46, 99, 111, 110, 102>>

\* Dir::try_exists of a path inside TMPFILESD
try_exists(cd, c, path) == cd /\ ParentOf(path) = TMPFILESD /\ FileName(path) \in DOMAIN c

LastDot(name) ==
    IF \E i \in 1..Len(name) : name[i] = 46
    THEN CHOOSE i \in 1..Len(name) : name[i] = 46 /\ \A j \in (i + 1)..Len(name) : name[j] # 46
    ELSE 0

\* Path::file_stem and Path::extension of a file name: [some, stem, extension].
\* A name without a dot, or whose only dot is its first byte, has no extension.
StemExtension(name) ==
    LET k == LastDot(name)
    IN  IF k <= 1 THEN [some |-> FALSE, stem |-> name, extension |-> <<>>]
        ELSE [some |-> TRUE, stem |-> SubSeq(name, 1, k - 1),
              extension |-> SubSeq(name, k + 1, Len(name))]

\* str::starts_with
StartsWith(s, pre) == Len(pre) <= Len(s) /\ SubSeq(s, 1, Len(pre)) = pre

\* the files read_tmpfiles reads: those with extension "conf"
ConfFiles(c) ==
    {n \in DOMAIN c : StemExtension(n).some
                      /\ StemExtension(n).extension = <<99, 111, 110, 102>>}

\* the lines read_tmpfiles parses: neither empty nor comments
ParsedLines(c) ==
    {l \in UNION {{c[n].lines[i] : i \in 1..Len(c[n].lines)} : n \in ConfFiles(c)} :
        l # <<>> /\ l[1] # 35}

\* a count of every .conf file, generated or not
Mut_GenerationCount(c) == Cardinality(ConfFiles(c))

\* the number of files counted by generation.increment()
GenerationCount(c) ==
    Cardinality({n \in ConfFiles(c) : StartsWith(StemExtension(n).stem, BOOTC_GENERATED_PREFIX)})

\* read_tmpfiles: [errs, existing, generation].  errs are the errors the scan
\* can end with (which malformed line is met first depends on the order of
\* the directory); with errs empty the scan succeeds.  existing is the key
\* set of the BTreeMap<PathBuf, String> (the values are never read).
read_tmpfiles(cd, c) ==
    IF ~cd
    THEN [errs |-> {}, existing |-> {}, generation |-> 0]
    ELSE [errs |-> {tmpfiles_entry_get_path(l).err :
                       l \in {m \in ParsedLines(c) : ~tmpfiles_entry_get_path(m).ok}},
          existing |-> {PathComponents(tmpfiles_entry_get_path(l).path) :
                           l \in ParsedLines(c)},
          generation |-> GenerationCount(c)]

\* existing.contains_key(prefix)
contains_key(keys, path) == PathComponents(path) \in keys

(***************************************************************************)
(* The output file                                                         *)
(***************************************************************************)
\* Ord of String: bytewise lexicographic
LexLess(a, b) ==
    LET n == IF Len(a) < Len(b) THEN Len(a) ELSE Len(b)
        diff == {i \in 1..n : a[i] # b[i]}
    IN  IF diff = {} THEN Len(a) < Len(b)
        ELSE LET k == CHOOSE i \in diff : \A j \in diff : i <= j
             IN  a[k] < b[k]

RECURSIVE BTreeSetIter(_)
\* BTreeSet<String>::iter: the elements in ascending order
BTreeSetIter(S) ==
    IF S = {} THEN <<>>
    ELSE LET m == CHOOSE e \in S : \A o \in S \ {e} : LexLess(e, o)
         IN  <<m>> \o BTreeSetIter(S \ {m})

\* "{elt:?}" of a PathBuf of printable bytes: quoted, with '"' and '\' escaped
DebugPath(path) ==
    <<34>> \o Concat([i \in 1..Len(path) |->
                        IF path[i] \in {34, 92} THEN <<92, path[i]>> ELSE <<path[i]>>])
    \o <<34>>

\* the closure given to atomic_replace_with: the lines written to the file
OutputLines(entries, unsupported) ==
    LET k == IF Len(unsupported) < 5 THEN Len(unsupported) ELSE 5
        samples == [i \in 1..k |->
                       <<35, 32, 98, 111, 111, 116, 99, 32, 105, 103, 110, 111, 114,
                         101, 100, 58, 32>> \o DebugPath(unsupported[i])]
        rest == Len(unsupported) - k
        more == IF rest > 0
                THEN << <<35, 32, 98, 111, 111, 116, 99, 32, 105, 103, 110, 111, 114,
                          101, 100, 58, 32, 46, 46, 46, 97, 110, 100, 32>>
                        \o Decimal(rest) \o <<32, 109, 111, 114, 101>> >>
                ELSE <<>>
    IN  BTreeSetIter(entries) \o samples \o more

\* a write in place: a failing closure leaves the lines written so far
Mut_atomic_replace_with(c, name, lines, io) ==
    (name :> [mode |-> 420,
              lines |-> IF io THEN lines ELSE SubSeq(lines, 1, Len(lines) - 1)]) @@ c

\* Dir::atomic_replace_with: the file appears, whole, only when the closure
\* succeeded (io); otherwise the temporary file is dropped
atomic_replace_with(c, name, lines, io) ==
    IF io THEN (name :> [mode |-> 420, lines |-> lines]) @@ c ELSE c

(***************************************************************************)
(* The decisions of var_to_tmpfiles and of the walk                        *)
(***************************************************************************)
\* a var/run check that is never taken
Mut_VarRunIsNonSymlink(f) == FALSE

\* symlink_metadata_optional("var/run") is Some(meta) and !meta.is_symlink()
VarRunIsNonSymlink(f) == f[VarRun].kind \notin {"absent", "link"}

\* a walk that never consults the existing entries
Mut_has_tmpfiles_entry(keys, path) == FALSE

\* a walk that takes every path for declared
Mut_has_tmpfiles_entry_always(keys, path) == TRUE

\* the walk's `has_tmpfiles_entry`
has_tmpfiles_entry(keys, path) == contains_key(keys, path)

\* a walk that leaves the walked directory in place
Mut_RemoveWalkedDir(f, ro, relpath) == {[fs |-> f, ok |-> TRUE]}

\* after the recursive call: remove_dir_all unless readonly.  Set of [fs, ok]
RemoveWalkedDir(f, ro, relpath) ==
    IF ro THEN {[fs |-> f, ok |-> TRUE]} ELSE remove_dir_all(f, relpath)

\* a non-directory branch that forgets the readonly flag
Mut_RemoveNonDir(f, ro, relpath) == remove_file(f, relpath)

\* the non-directory branch: remove_file unless readonly
RemoveNonDir(f, ro, relpath) == IF ro THEN f ELSE remove_file(f, relpath)

\* an iterator that yields the same entry again
Mut_IterNext(it, sub) == it

\* the read_dir iterator (the entries it has left) after it yielded sub
IterNext(it, sub) == it \ {sub}

\* a run that writes a file whatever the number of entries
Mut_NonZeroUsize_new(n) == [some |-> TRUE, value |-> n]

\* NonZeroUsize::new(entries.len()): None for 0
NonZeroUsize_new(n) == [some |-> n # 0, value |-> n]

(***************************************************************************)
(* State                                                                   *)
(***************************************************************************)
VARIABLES
    fs,               \* the objects below var: [AllPaths -> node]
    confdir,          \* usr/lib/tmpfiles.d exists
    conf,             \* its files: name -> [mode, lines]
    pc,               \* "idle", "walk" (a run is inside the walk), "panic"
    readonly,         \* the walk's readonly parameter
    existing,         \* the walk's `existing` (key set)
    generation,       \* the generation read_tmpfiles returned
    out_entries,      \* the walk's out_entries
    out_unsupported,  \* the walk's out_unsupported
    prefix,           \* the walk's prefix
    stack,            \* one read_dir iterator (entries left) per active call
    dirs,             \* the directory each active call gave to read_dir
    result,           \* what the run that just ended returned (NoResult once
                      \* the environment has acted or a new run has started)
    prev,             \* what the run before the current one returned, if the
                      \* current one started right after it
    pre,              \* the filesystem and configuration when the current run
                      \* started (NoSnapshot when `result` is NoResult and no
                      \* run is active)
    adds,             \* number of objects created so far
    runs,             \* number of runs started so far
    written,          \* number of runs that wrote a file so far
    visits,           \* how many loop iterations the current walk (or the one
                      \* that just ended) has spent on each path
    codec_pc,         \* the codec functions applied so far ("off" in a run
                      \* of the translation)
    codec_path,       \* the path given to escape_path or translate_to_tmpfiles_d
    codec_meta,       \* the FileMeta given to translate_to_tmpfiles_d
    codec_text,       \* the text they produced, or the line given to the parser
    codec_res         \* what unescape_path or tmpfiles_entry_get_path returned

\* the variables of the translation of /var
walk ==
    <<fs, confdir, conf, pc, readonly, existing, generation, out_entries,
      out_unsupported, prefix, stack, dirs, result, prev, pre, adds, runs,
      written, visits>>

\* the variables of the codec functions applied on their own
codec == <<codec_pc, codec_path, codec_meta, codec_text, codec_res>>

vars == <<walk, codec>>

NoneGenerated == [some |-> FALSE, count |-> 0, path |-> <<>>]

NoResult ==
    [op |-> "none", status |-> "ok", err |-> "none", stage |-> "none",
     existing |-> {}, generation |-> 0, entries |-> {}, unsupported |-> <<>>,
     generated |-> NoneGenerated, unsupported_count |-> 0, written_before |-> 0]

\* nothing below /var; /run exists as a directory
EmptyFs ==
    [p \in AllPaths \cup {RunOutside} |->
        IF p = RunOutside THEN Node("dir", 0, 0, 493, <<>>) ELSE Absent]

\* no FileMeta, no parse result
NoMeta == [dir |-> FALSE, mode |-> 0, target |-> <<>>]

NoParse == [ok |-> FALSE, err |-> "none", path |-> <<>>]

NoVisits == [p \in AllPaths |-> 0]

NoSnapshot == [fs |-> EmptyFs, confdir |-> FALSE, conf |-> <<>>]

\* hand-written configuration the model starts from
SystemdConf == <<115, 121, 115, 116, 101, 109, 100, 46, 99, 111, 110, 102>>

Readme == <<82, 69, 65, 68, 77, 69>>

HandFile(lines) == [mode |-> 420, lines |-> lines]

\* "# base" / "d /var/a 0755 - - -" / "" / "f /var/e 0644 - - -"; README is no .conf
ConfDeclaresAE ==
    (SystemdConf :> HandFile(<<
        <<35, 32, 98, 97, 115, 101>>,
        <<100, 32, 47, 118, 97, 114, 47, 97, 32, 48, 55, 53, 53, 32, 45, 32, 45, 32, 45>>,
        <<>>,
        <<102, 32, 47, 118, 97, 114, 47, 101, 32, 48, 54, 52, 52, 32, 45, 32, 45, 32, 45>> >>))
    @@ (Readme :> HandFile(<< <<32, 32>> >>))

\* "d /var/a/b/ 0700 root root -" / "L /var/run - - - - ../run" (the latter
\* as in systemd's var.conf)
ConfDeclaresB ==
    (SystemdConf :> HandFile(<<
        <<100, 32, 47, 118, 97, 114, 47, 97, 47, 98, 47, 32, 48, 55, 48, 48, 32, 114,
          111, 111, 116, 32, 114, 111, 111, 116, 32, 45>>,
        <<76, 32, 47, 118, 97, 114, 47, 114, 117, 110, 32, 45, 32, 45, 32, 45, 32, 45,
          32, 46, 46, 47, 114, 117, 110>> >>))

\* "d /var/a\q 0755 - - -": an escape that does not exist
ConfMalformed ==
    (SystemdConf :> HandFile(<<
        <<100, 32, 47, 118, 97, 114, 47, 97, 92, 113, 32, 48, 55, 53, 53, 32, 45, 32,
          45, 32, 45>> >>))

\* [confdir, conf]: no directory, an empty directory, or one of the files above
InitialConfigs ==
    {[confdir |-> FALSE, conf |-> <<>>], [confdir |-> TRUE, conf |-> <<>>],
     [confdir |-> TRUE, conf |-> ConfDeclaresAE],
     [confdir |-> TRUE, conf |-> ConfDeclaresB],
     [confdir |-> TRUE, conf |-> ConfMalformed]}

Init ==
    /\ fs = EmptyFs
    /\ \E c \in InitialConfigs : confdir = c.confdir /\ conf = c.conf
    /\ pc = "idle"
    /\ readonly = FALSE
    /\ existing = {}
    /\ generation = 0
    /\ out_entries = {}
    /\ out_unsupported = <<>>
    /\ prefix = <<47>> \o VarDir
    /\ stack = <<>>
    /\ dirs = <<>>
    /\ result = NoResult
    /\ prev = NoResult
    /\ pre = NoSnapshot
    /\ adds = 0
    /\ runs = 0
    /\ written = 0
    /\ visits = NoVisits
    /\ codec_pc = "off"
    /\ codec_path = <<>>
    /\ codec_meta = NoMeta
    /\ codec_text = <<>>
    /\ codec_res = NoParse

(***************************************************************************)
(* Actions                                                                 *)
(***************************************************************************)
\* the end of a run: its result is returned and the call's locals are gone
EndRun(res) ==
    /\ pc' = "idle"
    /\ result' = res
    /\ readonly' = FALSE
    /\ existing' = {}
    /\ generation' = 0
    /\ out_entries' = {}
    /\ out_unsupported' = <<>>
    /\ prefix' = <<47>> \o VarDir
    /\ stack' = <<>>
    /\ dirs' = <<>>

\* a run that got as far as `stage` and returns Err(err)
Failure(op, stage, err, keys, gen) ==
    [NoResult EXCEPT !.op = op, !.status = "err", !.err = err, !.stage = stage,
                     !.existing = keys, !.generation = gen,
                     !.written_before = written]

\* the call of convert_path_to_tmpfiles_d_recurse on /var: read_dir("var")
EnterWalk(ro, keys, gen) ==
    /\ pc' = "walk"
    /\ readonly' = ro
    /\ existing' = keys
    /\ generation' = gen
    /\ out_entries' = {}
    /\ out_unsupported' = <<>>
    /\ prefix' = <<47>> \o VarDir
    /\ stack' = <<ReadDir(fs, VarDir)>>
    /\ dirs' = <<VarDir>>
    /\ result' = NoResult

\* The environment creates an object below /var.
AddContent(p, n) ==
    /\ pc = "idle"
    /\ adds < MaxAdds
    /\ fs[p].kind = "absent"
    /\ IF ParentOf(p) = VarDir THEN TRUE ELSE IsDirKind(fs[ParentOf(p)])
    /\ fs' = [fs EXCEPT ![p] = n]
    /\ adds' = adds + 1
    /\ result' = NoResult
    /\ prev' = NoResult
    /\ pre' = NoSnapshot
    /\ visits' = NoVisits
    /\ UNCHANGED <<confdir, conf, pc, readonly, existing, generation, out_entries,
                   out_unsupported, prefix, stack, dirs, runs, written>>
    /\ UNCHANGED codec

\* The environment removes a file this program generated earlier.
RemoveGenerated(name) ==
    /\ pc = "idle"
    /\ confdir
    /\ name \in ConfFiles(conf)
    /\ StartsWith(name, BOOTC_GENERATED_PREFIX)
    /\ conf' = [m \in DOMAIN conf \ {name} |-> conf[m]]
    /\ result' = NoResult
    /\ prev' = NoResult
    /\ pre' = NoSnapshot
    /\ visits' = NoVisits
    /\ UNCHANGED <<fs, confdir, pc, readonly, existing, generation, out_entries,
                   out_unsupported, prefix, stack, dirs, adds, runs, written>>
    /\ UNCHANGED codec

\* var_to_tmpfiles up to the call of the walk: the scan of the existing
\* configuration and the two precondition checks.
ConvertStart ==
    /\ pc = "idle"
    /\ runs < MaxRuns
    /\ runs' = runs + 1
    /\ pre' = [fs |-> fs, confdir |-> confdir, conf |-> conf]
    /\ prev' = result
    /\ visits' = NoVisits
    /\ UNCHANGED <<fs, confdir, conf, adds, written, codec>>
    /\ LET r == read_tmpfiles(confdir, conf)
       IN  IF r.errs # {}
           THEN \E e \in r.errs : EndRun(Failure("convert", "scan", e, {}, 0))
           ELSE IF VarRunIsNonSymlink(fs)
           THEN EndRun(Failure("convert", "precondition", "FoundVarRunNonSymlink",
                               r.existing, r.generation))
           ELSE IF ~confdir
           THEN EndRun(Failure("convert", "precondition", "MissingTmpfilesDir",
                               r.existing, r.generation))
           ELSE EnterWalk(FALSE, r.existing, r.generation)

\* find_missing_tmpfiles_current_root up to the call of the walk.
QueryStart ==
    /\ pc = "idle"
    /\ runs < MaxRuns
    /\ runs' = runs + 1
    /\ pre' = [fs |-> fs, confdir |-> confdir, conf |-> conf]
    /\ prev' = result
    /\ visits' = NoVisits
    /\ UNCHANGED <<fs, confdir, conf, adds, written, codec>>
    /\ LET r == read_tmpfiles(confdir, conf)
       IN  IF r.errs # {}
           THEN \E e \in r.errs : EndRun(Failure("query", "scan", e, {}, 0))
           ELSE EnterWalk(TRUE, r.existing, r.generation)

\* One iteration of the loop of convert_path_to_tmpfiles_d_recurse, on the
\* entry `sub` the iterator of the innermost call yields next: up to the
\* recursive call (which reads the directory), or to the end of the body.
WalkEntry(sub) ==
    /\ pc = "walk"
    /\ stack # <<>>
    /\ sub \in stack[Len(stack)]
    /\ LET meta == fs[sub]
           pushed == PathPush(prefix, FileName(sub))
           relpath == StripRoot(pushed)
           declared == has_tmpfiles_entry(existing, pushed)
           tmpfiles_meta == FileMeta_from_fs(fs, relpath)
           user == get_user_by_uid(meta.uid)
           group == get_group_by_gid(meta.gid)
           entry == translate_to_tmpfiles_d(pushed, tmpfiles_meta, user.name,
                                            group.name)
           rest == [stack EXCEPT ![Len(stack)] = IterNext(@, sub)]
           op == IF readonly THEN "query" ELSE "convert"
           fail(e) == /\ EndRun(Failure(op, "walk", e, existing, generation))
                      /\ UNCHANGED fs
       IN  IF ~declared /\ ~tmpfiles_meta.some
           THEN /\ out_unsupported' = Append(out_unsupported, relpath)
                /\ prefix' = PathPop(pushed).path
                /\ stack' = rest
                /\ UNCHANGED <<fs, pc, readonly, existing, generation, out_entries,
                               dirs, result>>
           ELSE IF ~declared /\ ~user.found THEN fail("UserNotFound")
           ELSE IF ~declared /\ ~group.found THEN fail("GroupNotFound")
           ELSE IF ~declared /\ ~entry.ok THEN fail("Fmt")
           ELSE /\ out_entries' = IF declared THEN out_entries
                                  ELSE out_entries \cup {entry.line}
                /\ IF IsDirKind(meta)
                   THEN IF open_dir_noxdev(fs, relpath)
                        THEN /\ prefix' = pushed
                             /\ stack' = Append(rest, ReadDir(fs, relpath))
                             /\ dirs' = Append(dirs, relpath)
                             /\ UNCHANGED fs
                        ELSE /\ prefix' = PathPop(pushed).path
                             /\ stack' = rest
                             /\ UNCHANGED <<fs, dirs>>
                   ELSE /\ fs' = RemoveNonDir(fs, readonly, relpath)
                        /\ prefix' = PathPop(pushed).path
                        /\ stack' = rest
                        /\ UNCHANGED dirs
                /\ UNCHANGED <<pc, readonly, existing, generation, out_unsupported,
                               result>>
    /\ visits' = [visits EXCEPT ![sub] = @ + 1]
    /\ UNCHANGED <<confdir, conf, prev, pre, adds, runs, written, codec>>

\* The return of a recursive call whose loop is over, and the rest of the
\* caller's iteration: remove_dir_all unless readonly, then prefix.pop().
WalkReturn ==
    /\ pc = "walk"
    /\ Len(stack) > 1
    /\ stack[Len(stack)] = {}
    /\ \E o \in RemoveWalkedDir(fs, readonly, StripRoot(prefix)) :
          /\ fs' = o.fs
          /\ IF o.ok
             THEN /\ prefix' = PathPop(prefix).path
                  /\ stack' = SubSeq(stack, 1, Len(stack) - 1)
                  /\ dirs' = SubSeq(dirs, 1, Len(dirs) - 1)
                  /\ UNCHANGED <<pc, readonly, existing, generation, out_entries,
                                 out_unsupported, result>>
             ELSE EndRun(Failure(IF readonly THEN "query" ELSE "convert", "walk",
                                 "Io", existing, generation))
    /\ UNCHANGED <<confdir, conf, prev, pre, adds, runs, written, visits, codec>>

\* The return of the walk to var_to_tmpfiles and the rest of that function:
\* nothing to write, or the assertion and the atomic write.
ConvertFinish ==
    /\ pc = "walk"
    /\ ~readonly
    /\ Len(stack) = 1
    /\ stack[1] = {}
    /\ UNCHANGED <<fs, confdir, prev, pre, adds, runs, visits, codec>>
    /\ LET entries_count == NonZeroUsize_new(Cardinality(out_entries))
           path == BootcTmpfilesGeneration_path(generation)
           done == [NoResult EXCEPT !.op = "convert", !.stage = "done",
                                    !.existing = existing, !.generation = generation,
                                    !.entries = out_entries,
                                    !.unsupported = out_unsupported,
                                    !.written_before = written]
       IN  IF ~entries_count.some
           THEN /\ EndRun(done)
                /\ UNCHANGED <<conf, written>>
           ELSE IF try_exists(confdir, conf, path)
           THEN /\ pc' = "panic"
                /\ result' = [done EXCEPT !.status = "panic", !.stage = "assert"]
                /\ UNCHANGED <<conf, written, readonly, existing, generation,
                               out_entries, out_unsupported, prefix, stack, dirs>>
           ELSE \E io \in BOOLEAN :
                   /\ conf' = atomic_replace_with(conf, FileName(path),
                                  OutputLines(out_entries, out_unsupported), io)
                   /\ written' = IF io THEN written + 1 ELSE written
                   /\ EndRun(IF io
                             THEN [done EXCEPT
                                     !.generated = [some |-> TRUE,
                                                    count |-> entries_count.value,
                                                    path |-> path],
                                     !.unsupported_count = Len(out_unsupported)]
                             ELSE [done EXCEPT !.status = "err", !.err = "Io",
                                               !.stage = "write"])

\* The return of the walk to find_missing_tmpfiles_current_root.
QueryFinish ==
    /\ pc = "walk"
    /\ readonly
    /\ Len(stack) = 1
    /\ stack[1] = {}
    /\ EndRun([NoResult EXCEPT !.op = "query", !.stage = "done",
                               !.existing = existing, !.generation = generation,
                               !.entries = out_entries,
                               !.unsupported = out_unsupported,
                               !.written_before = written])
    /\ UNCHANGED <<fs, confdir, conf, prev, pre, adds, runs, written, visits, codec>>

Next ==
    \/ \E p \in AllPaths : \E n \in Candidates(p) : AddContent(p, n)
    \/ ConvertStart
    \/ QueryStart
    \/ \E sub \in AllPaths : WalkEntry(sub)
    \/ WalkReturn
    \/ ConvertFinish
    \/ QueryFinish

Spec == Init /\ [][Next]_vars

\* a step of a run that is inside the walk
WalkStep ==
    \/ \E sub \in AllPaths : WalkEntry(sub)
    \/ WalkReturn
    \/ ConvertFinish
    \/ QueryFinish

\* what may be at a candidate path: nothing or one of its candidates
Occupants(p) == Candidates(p) \cup {Absent}

\* the trees of at most MaxAdds objects: what AddContent can have built
Trees ==
    {f \in {[p \in DOMAIN EmptyFs |->
                CASE p = VarRun -> r
                  [] p = PathA  -> a
                  [] p = PathB  -> b
                  [] p = PathC  -> c
                  [] p = PathE  -> e
                  [] OTHER      -> EmptyFs[p]] :
             r \in Occupants(VarRun), a \in Occupants(PathA),
             b \in Occupants(PathB), c \in Occupants(PathC),
             e \in Occupants(PathE)} :
        /\ \A p \in AllPaths :
              (f[p].kind # "absent" /\ ParentOf(p) # VarDir) => IsDirKind(f[ParentOf(p)])
        /\ Cardinality({p \in AllPaths : f[p].kind # "absent"}) <= MaxAdds}

\* One more run can be started, on any tree that the environment can have
\* built after earlier runs that found /var empty.
InitLive ==
    /\ fs \in Trees
    /\ \E c \in InitialConfigs : confdir = c.confdir /\ conf = c.conf
    /\ pc = "idle"
    /\ readonly = FALSE
    /\ existing = {}
    /\ generation = 0
    /\ out_entries = {}
    /\ out_unsupported = <<>>
    /\ prefix = <<47>> \o VarDir
    /\ stack = <<>>
    /\ dirs = <<>>
    /\ result = NoResult
    /\ prev = NoResult
    /\ pre = NoSnapshot
    /\ adds = Cardinality({p \in AllPaths : fs[p].kind # "absent"})
    /\ runs = MaxRuns - 1
    /\ written = 0
    /\ visits = NoVisits
    /\ codec_pc = "off"
    /\ codec_path = <<>>
    /\ codec_meta = NoMeta
    /\ codec_text = <<>>
    /\ codec_res = NoParse

NextLive ==
    \/ ConvertStart
    \/ QueryStart
    \/ WalkStep

\* A run of the program, running: the walk is synchronous, single-threaded
\* code without suspension points, so a run that can take a step takes it.
SpecLive == InitLive /\ [][NextLive]_vars /\ WF_vars(WalkStep)

\* The same program when generated files may also be removed between runs.
NextRm ==
    \/ Next
    \/ \E name \in DOMAIN conf : RemoveGenerated(name)

SpecRm == Init /\ [][NextRm]_vars

(***************************************************************************)
(* The codec functions on their own: escape_path followed by unescape_path, *)
(* translate_to_tmpfiles_d followed by tmpfiles_entry_get_path, and         *)
(* tmpfiles_entry_get_path on the lines read_tmpfiles may meet.             *)
(***************************************************************************)
\* x 4 + / space " and backslash
Alphabet == {120, 52, 43, 47, 32, 34, 92}

\* the byte strings of 1..MaxLen bytes
CodecStrings == UNION {[1..n -> Alphabet] : n \in 1..MaxLen}

\* file names: run, a, "c d", "q with a leading quote, b\
WalkNames ==
    {<<114, 117, 110>>, <<97>>, <<99, 32, 100>>, <<34, 113>>, <<98, 92>>}

RECURSIVE PushAll(_, _)
\* prefix.push(fname) for each name in turn
PushAll(b, names) ==
    IF names = <<>> THEN b ELSE PushAll(PathPush(b, Head(names)), Tail(names))

\* the values of prefix the walk can format: /var and 1..MaxDepth names
WalkPaths ==
    {PushAll(<<47>> \o VarDir, s) : s \in UNION {[1..n -> WalkNames] : n \in 1..MaxDepth}}

\* Directory(0755), Directory(01777), Symlink(../run), Symlink(/var/run/x),
\* Symlink("t)
CodecMetas ==
    {[dir |-> TRUE, mode |-> 493, target |-> <<>>],
     [dir |-> TRUE, mode |-> 1023, target |-> <<>>],
     [dir |-> FALSE, mode |-> 0, target |-> <<46, 46, 47, 114, 117, 110>>],
     [dir |-> FALSE, mode |-> 0,
      target |-> <<47, 118, 97, 114, 47, 114, 117, 110, 47, 120>>],
     [dir |-> FALSE, mode |-> 0, target |-> <<34, 116>>]}

\* the lines given to the parser: a byte string, alone or after "d "
CodecLines == CodecStrings \cup {<<100, 32>> \o s : s \in CodecStrings}

InitCodec ==
    /\ fs = EmptyFs
    /\ confdir = FALSE
    /\ conf = <<>>
    /\ pc = "idle"
    /\ readonly = FALSE
    /\ existing = {}
    /\ generation = 0
    /\ out_entries = {}
    /\ out_unsupported = <<>>
    /\ prefix = <<47>> \o VarDir
    /\ stack = <<>>
    /\ dirs = <<>>
    /\ result = NoResult
    /\ prev = NoResult
    /\ pre = NoSnapshot
    /\ adds = 0
    /\ runs = 0
    /\ written = 0
    /\ visits = NoVisits
    /\ codec_meta = NoMeta
    /\ codec_res = NoParse
    /\ \/ /\ codec_pc = "path"
          /\ codec_path \in CodecStrings \cup WalkPaths
          /\ codec_text = <<>>
       \/ /\ codec_pc = "line"
          /\ codec_path = <<>>
          /\ codec_text \in CodecLines

\* escape_path(codec_path, out)
Escape ==
    /\ codec_pc = "path"
    /\ escape_path(codec_path).ok
    /\ codec_text' = escape_path(codec_path).out
    /\ codec_pc' = "escaped"
    /\ UNCHANGED <<walk, codec_path, codec_meta, codec_res>>

\* unescape_path on the escaped text
Unescape ==
    /\ codec_pc = "escaped"
    /\ LET r == unescape_path(codec_text, 1)
       IN  codec_res' = [ok |-> r.ok,
                         err |-> IF r.ok THEN "none" ELSE "MalformedTmpfilesPath",
                         path |-> IF r.ok THEN r.buf ELSE <<>>]
    /\ codec_pc' = "unescaped"
    /\ UNCHANGED <<walk, codec_path, codec_meta, codec_text>>

\* translate_to_tmpfiles_d(codec_path, meta, "root", "wheel")
Translate(meta) ==
    /\ codec_pc = "path"
    /\ codec_path \in WalkPaths
    /\ LET r == translate_to_tmpfiles_d(codec_path, meta, get_user_by_uid(0).name,
                                        get_group_by_gid(0).name)
       IN  /\ r.ok
           /\ codec_text' = r.line
    /\ codec_meta' = meta
    /\ codec_pc' = "translated"
    /\ UNCHANGED <<walk, codec_path, codec_res>>

\* tmpfiles_entry_get_path on the translated line
GetPathOfEntry ==
    /\ codec_pc = "translated"
    /\ codec_res' = tmpfiles_entry_get_path(codec_text)
    /\ codec_pc' = "parsed"
    /\ UNCHANGED <<walk, codec_path, codec_meta, codec_text>>

\* tmpfiles_entry_get_path on a line of an existing file, as in read_tmpfiles
GetPathOfLine ==
    /\ codec_pc = "line"
    /\ codec_res' = tmpfiles_entry_get_path(codec_text)
    /\ codec_pc' = "scanned"
    /\ UNCHANGED <<walk, codec_path, codec_meta, codec_text>>

NextCodec ==
    \/ Escape
    \/ Unescape
    \/ \E meta \in CodecMetas : Translate(meta)
    \/ GetPathOfEntry
    \/ GetPathOfLine

SpecCodec == InitCodec /\ [][NextCodec]_vars

(***************************************************************************)
(* Properties                                                              *)
(***************************************************************************)
\* a destructive run has just returned (or panicked)
ConvertEnded == pc \in {"idle", "panic"} /\ result.op = "convert"

\* a read-only query has just returned
QueryEnded == pc = "idle" /\ result.op = "query"

\* the candidate paths strictly below p
Descendants(p) == {q \in AllPaths : q # p /\ StartsWith(q, p \o <<47>>)}

\* the absolute path of a candidate path
Abs(p) == <<47>> \o p

\* the line the walk emits for the object that f holds at p
DeclarationOf(f, p) ==
    translate_to_tmpfiles_d(Abs(p), FileMeta_from_fs(f, p),
                            get_user_by_uid(f[p].uid).name,
                            get_group_by_gid(f[p].gid).name).line

\* C1: after a destructive run, every object under /var that was neither a
\* directory nor a symlink before the run is still on disk, wherever it sits
\* and whether or not its path is declared.
C1_UnsupportedNeverRemoved ==
    ConvertEnded =>
        \A p \in AllPaths : pre.fs[p].kind = "file" => fs[p] = pre.fs[p]

\* C2: a mount point under /var is never recursed into; after a destructive
\* run it and everything beneath it are still on disk; none of its children
\* is declared, and it is declared itself when its path was not yet declared.
C2_MountPointSafety ==
    /\ pc = "walk" =>
          \A p \in AllPaths : fs[p].kind = "mnt" => ~StartsWith(prefix, Abs(p))
    /\ ConvertEnded =>
          \A p \in AllPaths : pre.fs[p].kind = "mnt" =>
              /\ \A q \in {p} \cup Descendants(p) : fs[q] = pre.fs[q]
              /\ result.stage = "done" =>
                    /\ \A q \in Descendants(p) :
                          pre.fs[q].kind \in {"dir", "mnt", "link"}
                             => DeclarationOf(pre.fs, q) \notin result.entries
                    /\ (/\ ~contains_key(result.existing, Abs(p))
                        /\ \A a \in AllPaths :
                              p \in Descendants(a) => pre.fs[a].kind # "mnt")
                          => DeclarationOf(pre.fs, p) \in result.entries

\* C3 as stated: every object under /var whose path is a key of the existing
\* entries at the start of a destructive run still exists when the run ends.
C3_DeclaredNeverDeleted ==
    ConvertEnded =>
        \A p \in AllPaths :
            (pre.fs[p].kind # "absent" /\ contains_key(result.existing, Abs(p)))
                => fs[p].kind # "absent"

\* C3 as amended: a destructive run never declares again what is already
\* declared: it emits no line for an object whose path is a key of the
\* existing entries (the object itself is removed like any other).
C3_DeclaredNeverRedeclared ==
    /\ pc = "walk" =>
          \A p \in AllPaths :
              (pre.fs[p].kind \in {"dir", "mnt", "link"} /\ contains_key(existing, Abs(p)))
                  => DeclarationOf(pre.fs, p) \notin out_entries
    /\ ConvertEnded =>
          \A p \in AllPaths :
              (pre.fs[p].kind \in {"dir", "mnt", "link"}
               /\ contains_key(result.existing, Abs(p)))
                  => DeclarationOf(pre.fs, p) \notin result.entries

\* a successful destructive run removed a declared directory, declared its
\* undeclared content and did not declare the directory itself
C3_Witness ==
    /\ ConvertEnded
    /\ result.generated.some
    /\ \E p \in AllPaths :
          /\ pre.fs[p].kind = "dir"
          /\ contains_key(result.existing, Abs(p))
          /\ fs[p].kind = "absent"
          /\ \E q \in Descendants(p) : DeclarationOf(pre.fs, q) \in result.entries

\* C4: when a destructive run succeeded with nothing unsupported, a second
\* run started right after it yields no entry, writes no file and reports no
\* unsupported path.
C4_Idempotence ==
    (/\ ConvertEnded
     /\ prev.op = "convert"
     /\ prev.stage = "done"
     /\ prev.unsupported = <<>>)
        => /\ result.stage = "done"
           /\ result.status = "ok"
           /\ result.entries = {}
           /\ result.unsupported = <<>>
           /\ ~result.generated.some
           /\ result.unsupported_count = 0
           /\ conf = pre.conf

\* the second of two runs ended, the first wrote a file, and a mount point
\* that the first run declared is still on disk
C4_Witness ==
    /\ ConvertEnded
    /\ prev.op = "convert"
    /\ prev.generated.some
    /\ prev.unsupported = <<>>
    /\ \E p \in AllPaths :
          fs[p].kind = "mnt" /\ DeclarationOf(fs, p) \in prev.entries

\* C5: without removals, the generation scanned at the start of a run is the
\* number of earlier runs that wrote a file, and the k-th run that writes
\* creates bootc-autogenerated-var-(k-1).conf; a run that generates nothing
\* does not advance the numbering.
C5_GenerationNumbering ==
    (ConvertEnded /\ result.stage \notin {"scan", "precondition"})
        => /\ result.generation = result.written_before
           /\ IF result.generated.some
              THEN /\ written = result.written_before + 1
                   /\ result.generated.path
                         = BootcTmpfilesGeneration_path(result.written_before)
                   /\ FileName(result.generated.path) \in DOMAIN conf
                   /\ FileName(result.generated.path) \notin DOMAIN pre.conf
              ELSE /\ written = result.written_before
                   /\ conf = pre.conf

\* the second generating run has written bootc-autogenerated-var-1.conf next
\* to a hand-written file
C5_Witness ==
    /\ ConvertEnded
    /\ result.generated.some
    /\ result.written_before = 1
    /\ SystemdConf \in DOMAIN conf
    /\ FileName(BootcTmpfilesGeneration_path(1)) \in DOMAIN conf

\* C6: the assertion that the output path does not exist yet never fails,
\* also when generated files are removed between runs in any order.
C6_OutputPathIsFree == pc # "panic"

\* both walks were started
BothWalked ==
    /\ ConvertEnded
    /\ prev.op = "query"
    /\ result.stage \in {"walk", "write", "done"}
    /\ prev.stage \in {"walk", "done"}

\* C7: on the same tree, existing entries and resolver, the read-only walk
\* and the destructive walk fail together and otherwise produce the same
\* entries and the same unsupported paths.
C7_ReadonlyMatchesDestructive ==
    BothWalked =>
        /\ (result.stage = "walk") <=> (prev.stage = "walk")
        /\ (result.stage # "walk" /\ prev.stage # "walk") =>
              /\ result.entries = prev.entries
              /\ {result.unsupported[i] : i \in 1..Len(result.unsupported)}
                    = {prev.unsupported[i] : i \in 1..Len(prev.unsupported)}

\* C8: the read-only query changes nothing, while it runs and when it has
\* returned, successfully or not.
C8_ReadonlyChangesNothing ==
    ((pc = "walk" /\ readonly) \/ QueryEnded)
        => /\ fs = pre.fs
           /\ conf = pre.conf
           /\ confdir = pre.confdir

\* a query returned entries and unsupported paths for a tree that holds a
\* symlink, and the symlink is still there
C8_Witness ==
    /\ QueryEnded
    /\ result.stage = "done"
    /\ result.entries # {}
    /\ result.unsupported # <<>>
    /\ \E p \in AllPaths : fs[p].kind = "link" /\ DeclarationOf(fs, p) \in result.entries

\* the malformed line of ConfMalformed is a line of a .conf file
HasMalformedLine(c) ==
    \E n \in DOMAIN c :
        /\ n = SystemdConf
        /\ \E i \in 1..Len(c[n].lines) : c[n].lines[i] = ConfMalformed[SystemdConf].lines[1]

\* the error var_to_tmpfiles must return for the state it started in, if any
ExpectedEarlyErrors(s) ==
    (IF HasMalformedLine(s.conf) THEN {"MalformedTmpfilesPath"} ELSE {})
    \cup (IF s.fs[VarRun].kind \in {"dir", "mnt", "file"}
          THEN {"FoundVarRunNonSymlink"} ELSE {})
    \cup (IF ~s.confdir THEN {"MissingTmpfilesDir"} ELSE {})

C10_FailedRunWritesNothing ==
    (ConvertEnded /\ result.status = "err")
        => /\ conf = pre.conf
           /\ confdir = pre.confdir

\* a run failed inside the write, after a walk that emitted entries
C10_Witness ==
    /\ ConvertEnded
    /\ result.status = "err"
    /\ result.stage = "write"
    /\ result.entries # {}

\* the declaration lines of a file: those that are not comments
DeclarationLines(lines) == SelectSeq(lines, LAMBDA l : l # <<>> /\ l[1] # 35)

\* a destructive run has returned Ok
ConvertSucceeded == ConvertEnded /\ result.status = "ok" /\ result.stage = "done"

\* C11: a successful destructive run writes a file exactly when its entry
\* set is not empty: with no entry the configuration is as before and
\* `generated` is None; otherwise exactly one file is new, at the generation
\* path, and `generated` is the number of its declaration lines and that path.
C11_FileIffEntries ==
    ConvertSucceeded =>
        IF result.entries = {}
        THEN /\ conf = pre.conf
             /\ ~result.generated.some
        ELSE /\ result.generated.some
             /\ result.generated.path = BootcTmpfilesGeneration_path(result.generation)
             /\ LET name == FileName(result.generated.path)
                IN  /\ name \notin DOMAIN pre.conf
                    /\ DOMAIN conf = DOMAIN pre.conf \cup {name}
                    /\ \A m \in DOMAIN pre.conf : conf[m] = pre.conf[m]
                    /\ result.generated.count > 0
                    /\ result.generated.count = Len(DeclarationLines(conf[name].lines))

\* a run wrote a declaration line and a comment for an unsupported path
\* into a directory that already held a hand-written file
C11_Witness ==
    /\ ConvertSucceeded
    /\ result.generated.some
    /\ result.generated.count = 1
    /\ result.unsupported # <<>>
    /\ SystemdConf \in DOMAIN pre.conf
    /\ Len(conf[FileName(result.generated.path)].lines) = 2

\* C12: the unsupported count a successful destructive run returns is the
\* number of paths the walk recorded as unsupported, also when the run
\* generated no line.
C12_UnsupportedCount ==
    ConvertSucceeded => result.unsupported_count = Len(result.unsupported)

RECURSIVE Reached(_, _)
\* the walk of f reaches p: p exists and is a child of /var or of a reached
\* directory that is not a mount point
Reached(f, p) ==
    /\ f[p].kind # "absent"
    /\ IF ParentOf(p) = VarDir THEN TRUE
       ELSE f[ParentOf(p)].kind = "dir" /\ Reached(f, ParentOf(p))

\* the directories and symlinks the walk of f reaches whose path is no key
ToDeclare(f, keys) ==
    {p \in AllPaths : /\ Reached(f, p)
                      /\ f[p].kind \in {"dir", "mnt", "link"}
                      /\ ~contains_key(keys, Abs(p))}

\* a walk has returned Ok to its caller
WalkCompleted ==
    /\ pc \in {"idle", "panic"}
    /\ result.op \in {"convert", "query"}
    /\ result.stage \in {"done", "assert", "write"}

\* C13: the lines of a walk are one line for each directory or symlink it
\* reaches whose path is not a key of the existing entries (declared paths
\* get no line, the children of a declared directory do), and the file is
\* written in ascending order of the line text, without duplicates.
C13_LinesOfTheWalk ==
    /\ WalkCompleted =>
          /\ result.entries
                = {DeclarationOf(pre.fs, p) : p \in ToDeclare(pre.fs, result.existing)}
          /\ Cardinality(result.entries)
                = Cardinality(ToDeclare(pre.fs, result.existing))
    /\ (ConvertSucceeded /\ result.generated.some) =>
          LET lines == DeclarationLines(conf[FileName(result.generated.path)].lines)
          IN  /\ {lines[i] : i \in 1..Len(lines)} = result.entries
              /\ \A i \in 1..Len(lines) : \A j \in 1..Len(lines) :
                    i < j => LexLess(lines[i], lines[j])

\* a run wrote two lines, in order, for the content of a directory whose own
\* path was already declared and got no line
C13_Witness ==
    /\ ConvertSucceeded
    /\ result.generated.some
    /\ result.generated.count = 2
    /\ \E p \in AllPaths :
          /\ pre.fs[p].kind = "dir"
          /\ contains_key(result.existing, Abs(p))
          /\ \E q \in Descendants(p) : DeclarationOf(pre.fs, q) \in result.entries

\* C14: after a successful destructive run every symlink and every directory
\* that is no mount point and was a child of /var before the run is gone
\* with its whole subtree, declared or not; /var itself is never the object
\* of a removal.
C14_ConvertedContentIsGone ==
    /\ ConvertSucceeded =>
          \A p \in AllPaths :
              (ParentOf(p) = VarDir /\ pre.fs[p].kind \in {"dir", "link"})
                  => \A q \in {p} \cup Descendants(p) : fs[q].kind = "absent"
    /\ (pc = "walk" /\ Len(stack) > 1) =>
          /\ StripRoot(prefix) \in AllPaths
          /\ StripRoot(prefix) # VarDir

\* a successful run removed a declared directory that held a directory and
\* a regular file, and a symlink next to it
C14_Witness ==
    /\ ConvertSucceeded
    /\ pre.fs[PathA].kind = "dir"
    /\ contains_key(result.existing, Abs(PathA))
    /\ pre.fs[PathB].kind \in {"dir", "file"}
    /\ pre.fs[VarRun].kind = "link"
    /\ fs = EmptyFs

\* C15: unescape_path of the text escape_path produced for a path of
\* printable ASCII bytes is that path, whatever its first byte.
C15_EscapeRoundTrip ==
    codec_pc = "unescaped" => codec_res.ok /\ codec_res.path = codec_path

\* C16 as stated: tmpfiles_entry_get_path of the line translate_to_tmpfiles_d
\* produced for a path below /var is that path, /var/run included.
C16_EntryRoundTrip ==
    codec_pc = "parsed" => codec_res.ok /\ codec_res.path = codec_path

\* the path with a leading /var/run rewritten to /run
Canonical(path) ==
    LET p == PathComponents(path)
    IN  IF /\ p.root
           /\ Len(p.parts) >= 2
           /\ p.parts[1] = VarDir
           /\ p.parts[2] = <<114, 117, 110>>
        THEN SubSeq(path, 5, Len(path))
        ELSE path

\* C16 as amended: tmpfiles_entry_get_path of the line translate_to_tmpfiles_d
\* produced for a path below /var is that path with a leading /var/run
\* rewritten to /run: the path itself unless it is /var/run or below it.
C16_EntryRoundTripCanonical ==
    codec_pc = "parsed" =>
        /\ codec_res.ok
        /\ codec_res.path = Canonical(codec_path)
        /\ (~StartsWith(codec_path, VarRunPath)) => codec_res.path = codec_path

\* the line of a symlink at /var/run/c d, with a target that is rewritten
\* too, was parsed back to /run/c d
C16_Witness ==
    /\ codec_pc = "parsed"
    /\ codec_path = PushAll(VarRunPath, << <<99, 32, 100>> >>)
    /\ ~codec_meta.dir
    /\ codec_meta.target = VarRunPath \o <<47, 120>>
    /\ codec_res.path = <<47, 114, 117, 110, 47, 99, 32, 100>>

\* a hexadecimal digit
IsHexDigit(c) == c \in (48..57) \cup (65..70) \cup (97..102)

RECURSIVE WellFormedPathText(_, _, _)
\* the path text of a line from position i on, by the format of tmpfiles.d:
\* a quoted path runs to the next '"', which must be there, a bare one to
\* the next whitespace or the end; a backslash is followed by one of
\* \ n r t or by x and two hexadecimal digits
WellFormedPathText(s, i, quoted) ==
    IF i > Len(s) THEN ~quoted
    ELSE IF quoted /\ s[i] = 34 THEN TRUE
    ELSE IF ~quoted /\ IsAsciiWhitespace(s[i]) THEN TRUE
    ELSE IF s[i] # 92 THEN WellFormedPathText(s, i + 1, quoted)
    ELSE IF i + 1 > Len(s) THEN FALSE
    ELSE IF s[i + 1] \in {92, 110, 114, 116} THEN WellFormedPathText(s, i + 2, quoted)
    ELSE IF s[i + 1] = 120 /\ i + 3 <= Len(s)
            /\ IsHexDigit(s[i + 2]) /\ IsHexDigit(s[i + 3])
    THEN WellFormedPathText(s, i + 4, quoted)
    ELSE FALSE

\* a line that cannot be parsed: no type token, or a path text that is not
\* well formed
CannotBeParsed(line) ==
    LET afterLead == SkipWhile(line, 1, TRUE)
        afterType == SkipWhile(line, afterLead, FALSE)
        afterGap == SkipWhile(line, afterType, TRUE)
    IN  \/ afterType = afterLead
        \/ IF afterGap <= Len(line) /\ line[afterGap] = 34
           THEN ~WellFormedPathText(line, afterGap + 1, TRUE)
           ELSE ~WellFormedPathText(line, afterGap, FALSE)

\* C17: every line that cannot be parsed (no type token, an escape other
\* than \\ \n \r \t \xHH, a trailing backslash, an incomplete or non-hex
\* \xHH, a quoted path without closing quote) is rejected by
\* tmpfiles_entry_get_path with a malformed error and yields no path.
C17_UnparsableLinesRejected ==
    (codec_pc = "scanned" /\ CannotBeParsed(codec_text))
        => /\ ~codec_res.ok
           /\ codec_res.err \in {"MalformedTmpfilesEntry", "MalformedTmpfilesPath"}

\* the directories and symlinks the walk of f has to resolve an owner for
\* and cannot: reached, not declared, uid or gid without a name
Unresolvable(f, keys) ==
    {p \in ToDeclare(f, keys) : f[p].uid # 0 \/ f[p].gid # 0}

\* a walk was started and has ended, otherwise than by an I/O error
WalkEndedWithoutIo ==
    /\ pc \in {"idle", "panic"}
    /\ result.op \in {"convert", "query"}
    /\ result.stage \in {"walk", "done", "assert", "write"}
    /\ ~(result.stage = "walk" /\ result.err \in {"Io", "Fmt"})

DeclaredPaths(lines) ==
    {tmpfiles_entry_get_path(DeclarationLines(lines)[i]).path :
        i \in 1..Len(DeclarationLines(lines))}

\* the paths declared by the file a successful run wrote, if it wrote one
WrittenPaths ==
    IF result.generated.some
    THEN DeclaredPaths(conf[FileName(result.generated.path)].lines)
    ELSE {}

\* the directories and symlinks a run removed
LostObjects ==
    {p \in AllPaths : pre.fs[p].kind \in {"dir", "link"} /\ fs[p].kind = "absent"}

\* a destructive run succeeded on a tree without mount points
ConvertSucceededNoMount ==
    /\ ConvertSucceeded
    /\ \A p \in AllPaths : pre.fs[p].kind # "mnt"

\* C19 as stated: after a successful destructive run on a tree without mount
\* points, the path of every directory or symlink that is gone, with a
\* leading /var/run rewritten to /run, is a key of the existing entries or
\* the path of a line of the file the run wrote.
C19_NoUndeclaredLoss ==
    ConvertSucceededNoMount =>
        \A p \in LostObjects :
            \/ contains_key(result.existing, Canonical(Abs(p)))
            \/ Canonical(Abs(p)) \in WrittenPaths

\* C19 as amended: the path of every directory or symlink that is gone is a
\* key of the existing entries, or that path with a leading /var/run
\* rewritten to /run is the path of a line of the file the run wrote.
C19_NoUndeclaredLossByKeyOrLine ==
    ConvertSucceededNoMount =>
        \A p \in LostObjects :
            \/ contains_key(result.existing, Abs(p))
            \/ Canonical(Abs(p)) \in WrittenPaths

\* a run removed the symlink var/run, declared by a new line for /run, and a
\* declared directory with a symlink in it that the new file declares
C19_Witness ==
    /\ ConvertSucceededNoMount
    /\ VarRun \in LostObjects
    /\ ~contains_key(result.existing, Abs(VarRun))
    /\ PathA \in LostObjects
    /\ contains_key(result.existing, Abs(PathA))
    /\ PathB \in LostObjects
    /\ Abs(PathB) \in WrittenPaths

\* the files of the configuration directory that this program generated
GeneratedFiles(c) ==
    {n \in DOMAIN c : StartsWith(n, BOOTC_GENERATED_PREFIX)}

\* C20: over any sequence of destructive runs and re-creation of content
\* under /var, no path is declared by two different generated files: no line
\* a run writes declares a path that was a key of the existing entries
\* scanned at its start.
C20_AdditiveWithoutOverlap ==
    /\ \A m \in GeneratedFiles(conf) : \A n \in GeneratedFiles(conf) :
          m # n => DeclaredPaths(conf[m].lines) \cap DeclaredPaths(conf[n].lines) = {}
    /\ ConvertSucceeded =>
          \A q \in WrittenPaths : ~contains_key(result.existing, q)

\* str::ends_with
EndsWith(s, suffix) ==
    Len(suffix) <= Len(s) /\ SubSeq(s, Len(s) - Len(suffix) + 1, Len(s)) = suffix

\* " - - - - ": what separates path and target in the line of a symlink
SymlinkFields == <<32, 45, 32, 45, 32, 45, 32, 45, 32>>

\* the symlinks a completed walk had to declare
DeclaredLinks == {p \in ToDeclare(pre.fs, result.existing) : pre.fs[p].kind = "link"}

\* what a destructive run may change outside /var: nothing but one new file,
\* the one it reports, in the configuration directory
OutsideVarUnchanged ==
    /\ fs[RunOutside] = pre.fs[RunOutside]
    /\ confdir = pre.confdir
    /\ \A m \in DOMAIN pre.conf : m \in DOMAIN conf /\ conf[m] = pre.conf[m]
    /\ \A m \in DOMAIN conf \ DOMAIN pre.conf :
          /\ ConvertSucceeded
          /\ result.generated.some
          /\ m = FileName(result.generated.path)

\* C21 as stated: a destructive run declares a symlink with its literal
\* target text, removes the link and nothing it leads to, and changes
\* nothing outside /var but for the one output file.
C21_SymlinksNotFollowedLiteralTarget ==
    /\ ((pc = "walk" /\ ~readonly) \/ ConvertEnded) => OutsideVarUnchanged
    /\ (WalkCompleted /\ result.op = "convert") =>
          \A p \in DeclaredLinks :
              /\ fs[p].kind = "absent"
              /\ \E l \in result.entries :
                    /\ tmpfiles_entry_get_path(l).path = Canonical(Abs(p))
                    /\ EndsWith(l, SymlinkFields \o escape_path(pre.fs[p].target).out)

\* C21 as amended: a destructive run declares a symlink with its target
\* text, escaped, a leading /var/run rewritten to /run; it removes the link
\* and nothing it leads to, and changes nothing outside /var but for the one
\* output file.
C21_SymlinksNotFollowed ==
    /\ ((pc = "walk" /\ ~readonly) \/ ConvertEnded) => OutsideVarUnchanged
    /\ (WalkCompleted /\ result.op = "convert") =>
          \A p \in DeclaredLinks :
              /\ fs[p].kind = "absent"
              /\ \E l \in result.entries :
                    /\ tmpfiles_entry_get_path(l).path = Canonical(Abs(p))
                    /\ EndsWith(l, SymlinkFields
                                    \o escape_path(Canonical(pre.fs[p].target)).out)

\* a run declared and removed the symlink var/run; the directory /run it
\* leads to is still there
C21_Witness ==
    /\ ConvertSucceeded
    /\ result.generated.some
    /\ VarRun \in DeclaredLinks
    /\ ResolveLink(VarRun, pre.fs[VarRun].target) = RunOutside
    /\ fs[VarRun].kind = "absent"
    /\ fs[RunOutside].kind = "dir"

\* the number of components of a candidate path below var
DepthBelowVar(p) == Len(PathComponents(p).parts) - 1

\* the directory nesting depth of the tree f below /var
DirDepth(f) ==
    LET ds == {DepthBelowVar(p) : p \in {q \in AllPaths : IsDirKind(f[q])}}
    IN  IF ds = {} THEN 0 ELSE CHOOSE d \in ds : \A e \in ds : e <= d

\* a walk is running or has ended
WalkStarted == pc = "walk" \/ (pc \in {"idle", "panic"} /\ result.stage \in
                                   {"walk", "done", "assert", "write"})

\* each object is visited at most once and only if the walk reaches it;
\* what is recursed into is a directory, never a symlink; the number of
\* nested calls below the call on /var is at most the directory nesting
\* depth of the tree
C22_VisitedOnceAndShallow ==
    /\ WalkStarted =>
          \A p \in AllPaths :
              /\ visits[p] <= 1
              /\ visits[p] = 1 => Reached(pre.fs, p)
    /\ pc = "walk" =>
          /\ Len(stack) - 1 <= DirDepth(pre.fs)
          /\ Len(stack) - 1 = DepthBelowVar(StripRoot(prefix))
          /\ Len(stack) > 1 => pre.fs[StripRoot(prefix)].kind = "dir"

\* C22: the walk terminates on every finite tree, symlinks to ancestors
\* included: a run that is inside the walk leaves it, each object is visited
\* at most once, symlinks are never recursed into and the recursion is no
\* deeper than the directories are nested.
C22_WalkTerminates ==
    /\ []C22_VisitedOnceAndShallow
    /\ (pc = "walk") ~> (pc # "walk")

\* a walk went through a directory holding a symlink to its parent (../),
\* visited both once and returned
C22_Witness ==
    /\ pc = "idle"
    /\ result.stage = "done"
    /\ pre.fs[PathA].kind = "dir"
    /\ pre.fs[PathB].kind = "link"
    /\ ResolveLink(PathB, pre.fs[PathB].target) = VarDir
    /\ visits[PathA] = 1
    /\ visits[PathB] = 1

\* C23: whenever the walk is at the start of a loop iteration or at the
\* return of a call, the prefix is the path of the directory that call
\* iterates, which is the value the prefix had when the call was entered;
\* the entries of its iterator are entries of that directory and each
\* nested call iterates a child of its caller's directory.
C23_PrefixDiscipline ==
    pc = "walk" =>
        /\ Len(dirs) = Len(stack)
        /\ Len(dirs) >= 1
        /\ dirs[1] = VarDir
        /\ prefix = Abs(dirs[Len(dirs)])
        /\ \A sub \in stack[Len(stack)] : ParentOf(sub) = dirs[Len(dirs)]
        /\ \A k \in 2..Len(dirs) : ParentOf(dirs[k]) = dirs[k - 1]

\* the call on /var is about to return after iterations on a declared
\* directory that was recursed into, on a regular file or a mount point in
\* it and on a symlink
C23_Witness ==
    /\ pc = "walk"
    /\ stack = << {} >>
    /\ prefix = Abs(VarDir)
    /\ visits[PathA] = 1
    /\ contains_key(existing, Abs(PathA))
    /\ pre.fs[PathA].kind = "dir"
    /\ visits[PathB] = 1
    /\ pre.fs[PathB].kind \in {"file", "mnt"}
    /\ visits[PathE] = 1
    /\ pre.fs[PathE].kind = "link"

====
